---- MODULE Spec2Model ----
(***************************************************************************)
(* Model of src/features/modals/NodeModal/index.tsx: the node editor modal *)
(* of jsoncrack.  The module models                                        *)
(*   - updateJsonAtPath on a heap of JavaScript containers, so that        *)
(*     copying, sharing and mutation of objects are observable;            *)
(*   - the text-to-value coercion of handleSave (JSON.parse, String.trim,  *)
(*     Number) on sequences of characters;                                 *)
(*   - normalizeNodeData and JSON.stringify(value, null, 2);               *)
(*   - the modal itself: handleEdit, handleCancel, the textarea's onChange *)
(*     and handleSave over the JSON store and the file editor contents.    *)
(*                                                                         *)
(* A text is a sequence of one-character strings.  "NBSP" stands for the   *)
(* single character U+00A0, which String.prototype.trim and Number strip   *)
(* but which is not JSON whitespace.                                       *)
(***************************************************************************)
EXTENDS Integers, Sequences, FiniteSets, TLC

(***************************************************************************)
(* JavaScript values.  One record shape for every value:                   *)
(*   t  : "undef" "null" "bool" "num" "inf" "nan" "str" "ref" "arr" "obj"  *)
(*   n  : the number (num), its sign (inf), 1/0 (bool), the address (ref)  *)
(*   s  : the characters (str)                                             *)
(*   ks : the own keys in property order (obj)                             *)
(*   c  : the elements (arr) or the property values, in key order (obj)    *)
(* In a heap a container's children are scalars or "ref" values; a tree is *)
(* the same record with the containers inlined (structural value).         *)
(***************************************************************************)
Mk(t, n, s, ks, c) == [t |-> t, n |-> n, s |-> s, ks |-> ks, c |-> c]
Undef == Mk("undef", 0, <<>>, <<>>, <<>>)
Null == Mk("null", 0, <<>>, <<>>, <<>>)
Bool(b) == Mk("bool", IF b THEN 1 ELSE 0, <<>>, <<>>, <<>>)
Num(n) == Mk("num", n, <<>>, <<>>, <<>>)
Inf(sign) == Mk("inf", sign, <<>>, <<>>, <<>>)
NaN == Mk("nan", 0, <<>>, <<>>, <<>>)
Str(s) == Mk("str", 0, s, <<>>, <<>>)
Ref(a) == Mk("ref", a, <<>>, <<>>, <<>>)
Arr(c) == Mk("arr", 0, <<>>, <<>>, c)
Obj(ks, c) == Mk("obj", 0, <<>>, ks, c)

IsContainer(v) == v.t \in {"arr", "obj"}

(***************************************************************************)
(* Characters and numbers as text.                                         *)
(***************************************************************************)
Digits == <<"0", "1", "2", "3", "4", "5", "6", "7", "8", "9">>
IsDigit(ch) == \E d \in 1..10 : Digits[d] = ch
DigitVal(ch) == (CHOOSE d \in 1..10 : Digits[d] = ch) - 1

RECURSIVE NatToString(_)
NatToString(n) ==
  IF n < 10 THEN <<Digits[n + 1]>>
  ELSE NatToString(n \div 10) \o <<Digits[(n % 10) + 1]>>

\* Number::toString for the integers.
NumberToString(n) == IF n < 0 THEN <<"-">> \o NatToString(0 - n) ELSE NatToString(n)

RECURSIVE DigitsValue(_)
DigitsValue(s) ==
  IF Len(s) = 0 THEN 0
  ELSE 10 * DigitsValue(SubSeq(s, 1, Len(s) - 1)) + DigitVal(s[Len(s)])

AllDigits(s) == Len(s) > 0 /\ \A i \in 1..Len(s) : IsDigit(s[i])

\* WhiteSpace and LineTerminator of ECMAScript, as far as the model's texts
\* hold them: what trim() and Number() strip.
IsStrWhiteSpace(ch) == ch \in {" ", "\n", "\t", "\r", "NBSP"}
\* The whitespace of the JSON grammar.
IsJsonWhiteSpace(ch) == ch \in {" ", "\n", "\t", "\r"}

RECURSIVE TrimStart(_)
TrimStart(s) ==
  IF Len(s) > 0 /\ IsStrWhiteSpace(s[1]) THEN TrimStart(Tail(s)) ELSE s

RECURSIVE TrimEnd(_)
TrimEnd(s) ==
  IF Len(s) > 0 /\ IsStrWhiteSpace(s[Len(s)])
  THEN TrimEnd(SubSeq(s, 1, Len(s) - 1)) ELSE s

\* String.prototype.trim
Trim(s) == TrimEnd(TrimStart(s))

Infinity == <<"I", "n", "f", "i", "n", "i", "t", "y">>

\* StringToNumber on an unsigned literal: Infinity or decimal digits.  (The
\* fraction, exponent and 0x/0o/0b forms need characters the model's texts
\* do not hold.)
UnsignedToNumber(s, sign) ==
  IF s = Infinity THEN Inf(sign)
  ELSE IF AllDigits(s) THEN Num(sign * DigitsValue(s))
  ELSE NaN

\* Number(string): strip whitespace, "" is 0, an optional sign, NaN otherwise.
ToNumber(text) ==
  LET s == Trim(text) IN
  IF Len(s) = 0 THEN Num(0)
  ELSE IF s[1] = "-" THEN UnsignedToNumber(Tail(s), -1)
  ELSE IF s[1] = "+" THEN UnsignedToNumber(Tail(s), 1)
  ELSE UnsignedToNumber(s, 1)

(***************************************************************************)
(* Property keys, arrays and objects.                                      *)
(***************************************************************************)
\* ToPropertyKey of a path segment (JSONPath = (string | number)[]).
ToPropertyKey(seg) == IF seg.t = "num" THEN NumberToString(seg.n) ELSE seg.s

\* A canonical array index: the keys an object lists first, in ascending order.
IsArrayIndexKey(k) == AllDigits(k) /\ NatToString(DigitsValue(k)) = k

\* The number a segment compares as in `index >= 0 && index < result.length`.
SegToNumber(seg) == IF seg.t = "num" THEN Num(seg.n) ELSE ToNumber(seg.s)

\* The bounds test with <= for <, and with > for >=.
OffByOneInBounds(first, length) ==
  LET x == SegToNumber(first) IN x.t = "num" /\ x.n >= 0 /\ x.n <= length
PositiveInBounds(first, length) ==
  LET x == SegToNumber(first) IN x.t = "num" /\ x.n > 0 /\ x.n < length

\* index >= 0 && index < result.length   (false when index converts to NaN)
IndexInBounds(first, length) ==
  LET x == SegToNumber(first) IN x.t = "num" /\ x.n >= 0 /\ x.n < length

InsertAt(s, pos, x) == SubSeq(s, 1, pos) \o <<x>> \o SubSeq(s, pos + 1, Len(s))

\* result[index] on an array: undefined past the end.
ArrGet(arr, first) ==
  LET i == SegToNumber(first).n + 1 IN
  IF i <= Len(arr.c) THEN arr.c[i] ELSE Undef

\* result[index] = value on an array; an index equal to the length appends.
ArrSet(arr, first, value) ==
  LET i == SegToNumber(first).n + 1 IN
  IF i <= Len(arr.c) THEN [arr EXCEPT !.c[i] = value]
  ELSE [arr EXCEPT !.c = Append(@, value)]

\* result[key] on an object: undefined when the key is absent.
ObjGet(obj, key) ==
  IF \E i \in 1..Len(obj.ks) : obj.ks[i] = key
  THEN obj.c[CHOOSE i \in 1..Len(obj.ks) : obj.ks[i] = key]
  ELSE Undef

\* Where a new own key lands in the property order: array-index keys in
\* ascending numeric order before every other key, those in insertion order.
NewKeyPosition(ks, key) ==
  IF IsArrayIndexKey(key)
  THEN Cardinality({i \in 1..Len(ks) :
         IsArrayIndexKey(ks[i]) /\ DigitsValue(ks[i]) < DigitsValue(key)})
  ELSE Len(ks)

\* A set that deletes the key and adds it again, so that it moves to the end.
ObjSetReinsert(obj, key, value) ==
  LET keep == SelectSeq([i \in 1..Len(obj.ks) |-> i], LAMBDA i : obj.ks[i] # key)
  IN Obj([j \in 1..Len(keep) |-> obj.ks[keep[j]]] \o <<key>>,
         [j \in 1..Len(keep) |-> obj.c[keep[j]]] \o <<value>>)

\* result[key] = value on an object.
ObjSet(obj, key, value) ==
  IF \E i \in 1..Len(obj.ks) : obj.ks[i] = key
  THEN [obj EXCEPT !.c[CHOOSE i \in 1..Len(obj.ks) : obj.ks[i] = key] = value]
  ELSE LET pos == NewKeyPosition(obj.ks, key)
       IN Obj(InsertAt(obj.ks, pos, key), InsertAt(obj.c, pos, value))

(***************************************************************************)
(* The heap: a sequence of containers, the address of one being its        *)
(* position.  Objects are never freed.                                     *)
(***************************************************************************)
\* Array.isArray(json)
IsArray(h, v) == v.t = "ref" /\ h[v.n].t = "arr"

\* { ...json }: the own enumerable properties of json, in order.  null,
\* undefined, numbers and booleans have none; a string has its characters.
ObjectSpread(h, v) ==
  IF v.t = "ref" THEN
    LET o == h[v.n] IN
    IF o.t = "obj" THEN o
    ELSE Obj([i \in 1..Len(o.c) |-> NatToString(i - 1)], o.c)
  ELSE IF v.t = "str" THEN
    Obj([i \in 1..Len(v.s) |-> NatToString(i - 1)],
        [i \in 1..Len(v.s) |-> Str(<<v.s[i]>>)])
  ELSE Obj(<<>>, <<>>)

\* A structuredClone of json: no container shared with the original.
RECURSIVE DeepCopy(_, _)
DeepCopy(h, v) ==
  IF v.t # "ref" THEN [h |-> h, a |-> 0, v |-> v]
  ELSE LET o == h[v.n]
           F[i \in 0..Len(o.c)] ==
             IF i = 0 THEN [h |-> h, vs |-> <<>>]
             ELSE LET x == DeepCopy(F[i - 1].h, o.c[i])
                  IN [h |-> x.h, vs |-> Append(F[i - 1].vs, x.v)]
           done == F[Len(o.c)]
       IN [h |-> Append(done.h, [o EXCEPT !.c = done.vs]),
           a |-> Len(done.h) + 1, v |-> Ref(Len(done.h) + 1)]

\* const result = json: no copy, the container itself.
SpreadAlias(h, json) ==
  IF json.t = "ref" THEN [h |-> h, a |-> json.n]
  ELSE [h |-> Append(h, ObjectSpread(h, json)), a |-> Len(h) + 1]

\* A deep copy in place of the shallow one.
SpreadDeep(h, json) ==
  IF json.t = "ref" THEN LET d == DeepCopy(h, json) IN [h |-> d.h, a |-> d.a]
  ELSE [h |-> Append(h, ObjectSpread(h, json)), a |-> Len(h) + 1]

\* const result = Array.isArray(json) ? [...json] : { ...json };
\* a new container at a fresh address a, its children those of json.
SpreadCopy(h, json) ==
  [h |-> Append(h, IF IsArray(h, json) THEN h[json.n] ELSE ObjectSpread(h, json)),
   a |-> Len(h) + 1]

(***************************************************************************)
(* updateJsonAtPath(json, path, newValue): the heap after the call and the *)
(* value returned.                                                         *)
(***************************************************************************)
RECURSIVE updateJsonAtPath(_, _, _, _)
updateJsonAtPath(h, json, path, newValue) ==
  IF Len(path) = 0 THEN [h |-> h, v |-> newValue]
  ELSE
    LET first == Head(path)
        rest == Tail(path)
        copy == SpreadCopy(h, json)
        a == copy.a
        result == copy.h[a]
    IN
    IF Len(rest) = 0 THEN
      IF result.t = "arr" THEN
        IF IndexInBounds(first, Len(result.c))
        THEN [h |-> [copy.h EXCEPT ![a] = ArrSet(@, first, newValue)], v |-> Ref(a)]
        ELSE [h |-> copy.h, v |-> Ref(a)]
      ELSE
        [h |-> [copy.h EXCEPT ![a] = ObjSet(@, ToPropertyKey(first), newValue)],
         v |-> Ref(a)]
    ELSE
      IF result.t = "arr" THEN
        IF IndexInBounds(first, Len(result.c))
        THEN LET r == updateJsonAtPath(copy.h, ArrGet(result, first), rest, newValue)
             IN [h |-> [r.h EXCEPT ![a] = ArrSet(@, first, r.v)], v |-> Ref(a)]
        ELSE [h |-> copy.h, v |-> Ref(a)]
      ELSE IF result.t = "obj" THEN
        \* result && typeof result === "object": true of every spread result
        LET key == ToPropertyKey(first)
            r == updateJsonAtPath(copy.h, ObjGet(result, key), rest, newValue)
        IN [h |-> [r.h EXCEPT ![a] = ObjSet(@, key, r.v)], v |-> Ref(a)]
      ELSE [h |-> copy.h, v |-> Ref(a)]

(***************************************************************************)
(* Trees and the heap: what JSON.parse builds, and the structural value of *)
(* a heap value.                                                           *)
(***************************************************************************)
RECURSIVE Load(_, _)
Load(h, tree) ==
  IF ~IsContainer(tree) THEN [h |-> h, v |-> tree]
  ELSE LET F[i \in 0..Len(tree.c)] ==
             IF i = 0 THEN [h |-> h, vs |-> <<>>]
             ELSE LET x == Load(F[i - 1].h, tree.c[i])
                  IN [h |-> x.h, vs |-> Append(F[i - 1].vs, x.v)]
           done == F[Len(tree.c)]
       IN [h |-> Append(done.h, [tree EXCEPT !.c = done.vs]),
           v |-> Ref(Len(done.h) + 1)]

RECURSIVE Deref(_, _)
Deref(h, v) ==
  IF v.t # "ref" THEN v
  ELSE LET o == h[v.n] IN [o EXCEPT !.c = [i \in 1..Len(o.c) |-> Deref(h, o.c[i])]]

(***************************************************************************)
(* JSON.parse on a text: a recursive-descent reading of the JSON grammar.  *)
(* Numbers are the integer literals (a fraction or an exponent needs the   *)
(* characters "." "e" "E" after a digit, and \u escapes a "u" after a      *)
(* backslash; the model's texts hold neither).  A result is                *)
(*   [ok |-> whether the text parsed, v |-> the value, i |-> next index].  *)
(***************************************************************************)
ParseFail == [ok |-> FALSE, v |-> Undef, i |-> 0]
ParseOk(v, i) == [ok |-> TRUE, v |-> v, i |-> i]

CharAt(s, i) == IF i >= 1 /\ i <= Len(s) THEN s[i] ELSE "EOF"

HasAt(s, i, lit) == i + Len(lit) - 1 <= Len(s) /\ SubSeq(s, i, i + Len(lit) - 1) = lit

RECURSIVE SkipWs(_, _)
SkipWs(s, i) == IF IsJsonWhiteSpace(CharAt(s, i)) THEN SkipWs(s, i + 1) ELSE i

RECURSIVE DigitsEnd(_, _)
\* The index after the run of digits that starts at i.
DigitsEnd(s, i) == IF IsDigit(CharAt(s, i)) THEN DigitsEnd(s, i + 1) ELSE i

\* number: -? ( 0 | [1-9][0-9]* )
ParseNumber(s, i) ==
  LET neg == CharAt(s, i) = "-"
      b == IF neg THEN i + 1 ELSE i
      e == IF CharAt(s, b) = "0" THEN b + 1 ELSE DigitsEnd(s, b)
  IN IF e = b THEN ParseFail
     ELSE ParseOk(Num((IF neg THEN -1 ELSE 1) * DigitsValue(SubSeq(s, b, e - 1))), e)

\* The character an escape \x stands for, "" when \x is no escape.
Unescape(ch) ==
  CASE ch = "\"" -> "\""
    [] ch = "\\" -> "\\"
    [] ch = "/" -> "/"
    [] ch = "n" -> "\n"
    [] ch = "t" -> "\t"
    [] ch = "r" -> "\r"
    [] ch = "b" -> "BS"
    [] ch = "f" -> "FF"
    [] OTHER -> ""

IsControl(ch) == ch \in {"\n", "\t", "\r", "BS", "FF"}

RECURSIVE ParseChars(_, _, _)
\* The characters of a string literal from index i on, up to its closing quote.
ParseChars(s, i, acc) ==
  LET ch == CharAt(s, i) IN
  IF ch = "EOF" \/ IsControl(ch) THEN ParseFail
  ELSE IF ch = "\"" THEN ParseOk(Str(acc), i + 1)
  ELSE IF ch = "\\" THEN
    IF Unescape(CharAt(s, i + 1)) = "" THEN ParseFail
    ELSE ParseChars(s, i + 2, Append(acc, Unescape(CharAt(s, i + 1))))
  ELSE ParseChars(s, i + 1, Append(acc, ch))

ParseString(s, i) == IF CharAt(s, i) = "\"" THEN ParseChars(s, i + 1, <<>>) ELSE ParseFail

TrueText == <<"t", "r", "u", "e">>
FalseText == <<"f", "a", "l", "s", "e">>
NullText == <<"n", "u", "l", "l">>

RECURSIVE ParseValue(_, _), ParseElements(_, _, _), ParseMembers(_, _, _)
ParseValue(s, i0) ==
  LET i == SkipWs(s, i0)
      ch == CharAt(s, i)
  IN CASE ch = "{" ->
            IF CharAt(s, SkipWs(s, i + 1)) = "}"
            THEN ParseOk(Obj(<<>>, <<>>), SkipWs(s, i + 1) + 1)
            ELSE ParseMembers(s, i + 1, Obj(<<>>, <<>>))
       [] ch = "[" ->
            IF CharAt(s, SkipWs(s, i + 1)) = "]"
            THEN ParseOk(Arr(<<>>), SkipWs(s, i + 1) + 1)
            ELSE ParseElements(s, i + 1, <<>>)
       [] ch = "\"" -> ParseString(s, i)
       [] HasAt(s, i, TrueText) -> ParseOk(Bool(TRUE), i + 4)
       [] HasAt(s, i, FalseText) -> ParseOk(Bool(FALSE), i + 5)
       [] HasAt(s, i, NullText) -> ParseOk(Null, i + 4)
       [] ch = "-" \/ IsDigit(ch) -> ParseNumber(s, i)
       [] OTHER -> ParseFail

\* value ( , value )* ]
ParseElements(s, i, acc) ==
  LET r == ParseValue(s, i) IN
  IF ~r.ok THEN ParseFail
  ELSE LET j == SkipWs(s, r.i) IN
       IF CharAt(s, j) = "," THEN ParseElements(s, j + 1, Append(acc, r.v))
       ELSE IF CharAt(s, j) = "]" THEN ParseOk(Arr(Append(acc, r.v)), j + 1)
       ELSE ParseFail

\* string : value ( , string : value )* }    a repeated key keeps its place
\* and takes the last value.
ParseMembers(s, i, obj) ==
  LET k == ParseString(s, SkipWs(s, i)) IN
  IF ~k.ok THEN ParseFail
  ELSE LET c == SkipWs(s, k.i) IN
       IF CharAt(s, c) # ":" THEN ParseFail
       ELSE LET r == ParseValue(s, c + 1) IN
            IF ~r.ok THEN ParseFail
            ELSE LET j == SkipWs(s, r.i)
                     o == ObjSet(obj, k.v.s, r.v)
                 IN IF CharAt(s, j) = "," THEN ParseMembers(s, j + 1, o)
                    ELSE IF CharAt(s, j) = "}" THEN ParseOk(o, j + 1)
                    ELSE ParseFail

\* JSON.parse(text): ok is FALSE where JSON.parse throws a SyntaxError.
JsonParse(text) ==
  LET r == ParseValue(text, 1) IN
  IF r.ok /\ SkipWs(text, r.i) = Len(text) + 1 THEN r ELSE ParseFail

(***************************************************************************)
(* JSON.stringify(value, null, 2) on a structural value.                   *)
(***************************************************************************)
EscapeChar(ch) ==
  CASE ch = "\"" -> <<"\\", "\"">>
    [] ch = "\\" -> <<"\\", "\\">>
    [] ch = "\n" -> <<"\\", "n">>
    [] ch = "\t" -> <<"\\", "t">>
    [] ch = "\r" -> <<"\\", "r">>
    [] ch = "BS" -> <<"\\", "b">>
    [] ch = "FF" -> <<"\\", "f">>
    [] OTHER -> <<ch>>

RECURSIVE Flatten(_)
Flatten(ss) == IF Len(ss) = 0 THEN <<>> ELSE Head(ss) \o Flatten(Tail(ss))

\* QuoteJSONString
Quote(chars) ==
  <<"\"">> \o Flatten([i \in 1..Len(chars) |-> EscapeChar(chars[i])]) \o <<"\"">>

Indent(depth) == [i \in 1..(2 * depth) |-> " "]

RECURSIVE JoinLines(_)
\* The items of a container, one per line, separated by commas.
JoinLines(items) ==
  IF Len(items) = 1 THEN Head(items)
  ELSE Head(items) \o <<",", "\n">> \o JoinLines(Tail(items))

RECURSIVE Stringify(_, _)
Stringify(v, depth) ==
  CASE v.t = "null" -> NullText
    [] v.t = "bool" -> IF v.n = 1 THEN TrueText ELSE FalseText
    [] v.t = "num" -> NumberToString(v.n)
    [] v.t \in {"inf", "nan"} -> NullText
    [] v.t = "str" -> Quote(v.s)
    [] v.t = "arr" ->
         IF Len(v.c) = 0 THEN <<"[", "]">>
         ELSE <<"[", "\n">>
              \o JoinLines([i \in 1..Len(v.c) |->
                             Indent(depth + 1) \o Stringify(v.c[i], depth + 1)])
              \o <<"\n">> \o Indent(depth) \o <<"]">>
    [] v.t = "obj" ->
         IF Len(v.c) = 0 THEN <<"{", "}">>
         ELSE <<"{", "\n">>
              \o JoinLines([i \in 1..Len(v.c) |->
                             Indent(depth + 1) \o Quote(v.ks[i]) \o <<":", " ">>
                               \o Stringify(v.c[i], depth + 1)])
              \o <<"\n">> \o Indent(depth) \o <<"}">>

\* JSON.stringify(value, null, 2)
JsonStringify(v) == Stringify(v, 0)

\* `${value}`: ToString of a primitive.
TemplateString(v) ==
  CASE v.t = "str" -> v.s
    [] v.t = "num" -> NumberToString(v.n)
    [] v.t = "bool" -> IF v.n = 1 THEN TrueText ELSE FalseText
    [] v.t = "null" -> NullText
    [] v.t = "inf" -> IF v.n < 0 THEN <<"-">> \o Infinity ELSE Infinity
    [] v.t = "nan" -> <<"N", "a", "N">>
    [] OTHER -> <<"u", "n", "d", "e", "f", "i", "n", "e", "d">>

(***************************************************************************)
(* normalizeNodeData(nodeRows).  A row is [key, value, type]: key a string *)
(* or null, value a primitive, type the name of the field's JSON type.     *)
(***************************************************************************)
Row(key, value, type) == [key |-> key, value |-> value, type |-> type]

\* !x for a key: null, undefined and "" are falsy.
Falsy(v) == v.t \in {"null", "undef"} \/ (v.t = "str" /\ v.s = <<>>)

RECURSIVE RowsToObject(_, _)
\* nodeRows.forEach(row => ...) onto obj
RowsToObject(rows, obj) ==
  IF Len(rows) = 0 THEN obj
  ELSE LET row == Head(rows) IN
       RowsToObject(Tail(rows),
         IF row.type # "array" /\ row.type # "object" /\ ~Falsy(row.key)
         THEN ObjSet(obj, row.key.s, row.value) ELSE obj)

normalizeNodeData(nodeRows) ==
  IF Len(nodeRows) = 0 THEN <<"{", "}">>
  ELSE IF Len(nodeRows) = 1 /\ Falsy(nodeRows[1].key) THEN TemplateString(nodeRows[1].value)
  ELSE JsonStringify(RowsToObject(nodeRows, Obj(<<>>, <<>>)))

(***************************************************************************)
(* The parse of the edited content in handleSave (lines 104-124).          *)
(***************************************************************************)
StartsWith(s, ch) == Len(s) > 0 /\ s[1] = ch
EndsWith(s, ch) == Len(s) > 0 /\ s[Len(s)] = ch

\* ok is FALSE where the inner JSON.parse(trimmed) throws.
ParseEdited(content) ==
  LET strict == JsonParse(content) IN
  IF strict.ok THEN strict
  ELSE LET trimmed == Trim(content) IN
       IF StartsWith(trimmed, "\"") /\ EndsWith(trimmed, "\"") THEN JsonParse(trimmed)
       ELSE IF trimmed = NullText THEN ParseOk(Null, 0)
       ELSE IF trimmed = TrueText THEN ParseOk(Bool(TRUE), 0)
       ELSE IF trimmed = FalseText THEN ParseOk(Bool(FALSE), 0)
       ELSE IF ToNumber(trimmed).t # "nan" /\ trimmed # <<>> THEN ParseOk(ToNumber(trimmed), 0)
       ELSE ParseOk(Str(trimmed), 0)


(***************************************************************************)
(* State.                                                                  *)
(*   pc            which operation is under way                            *)
(*   heap, json, path, newValue   the arguments of updateJsonAtPath and    *)
(*                 the heap they live in; ret: the heap after the call and *)
(*                 the value returned                                      *)
(*   editedContent the text of the textarea (useState, line 74)            *)
(*   parsed        the outcome of parsing editedContent (lines 104-124)    *)
(*   isEditing     useState, line 73                                       *)
(*   nodeData      useGraph's selectedNode (line 70)                       *)
(*   store         the text of the JSON store (getJson / setJson)          *)
(*   contents      the text of the file editor (useFile.setContents)       *)
(*   toast         the last message shown                                  *)
(*   saves         how many times handleSave has run (bounds the model)    *)
(***************************************************************************)
VARIABLES pc, heap, json, path, newValue, ret,
          editedContent, parsed, isEditing, nodeData, store, contents, toast,
          saves

vars == <<pc, heap, json, path, newValue, ret,
          editedContent, parsed, isEditing, nodeData, store, contents, toast,
          saves>>
updateVars == <<heap, json, path, newValue, ret>>
modalVars == <<isEditing, nodeData, store, contents, toast, saves>>

\* selectedNode: null (selected FALSE), or a node with its rows and, unless
\* it is missing (hasPath FALSE), its path.
NoNode == [selected |-> FALSE, hasPath |-> FALSE, path |-> <<>>, text |-> <<>>]

IdleUpdate ==
  /\ heap = <<>>
  /\ json = Undef
  /\ path = <<>>
  /\ newValue = Undef
  /\ ret = [h |-> <<>>, v |-> Undef]

IdleModal ==
  /\ isEditing = FALSE
  /\ nodeData = NoNode
  /\ store = <<>>
  /\ contents = <<>>
  /\ toast = "none"
  /\ saves = 0

(***************************************************************************)
(* Bounded inputs of updateJsonAtPath.                                     *)
(***************************************************************************)
MaxNodes == 4
MaxPathLen == 2

DocScalars == {Num(1), Str(<<"a">>)}
\* The keys of the documents' objects, in property order.
DocKeys == <<<<"0">>, <<"a">>>>
PathSegs == {Num(0), Num(1), Num(-1), Str(<<"a">>), Str(<<"b">>), Str(<<"0">>)}
NewValues == {Num(7), Null, Obj(<<<<"a">>>>, <<Num(7)>>)}

KeySeqs(k) ==
  {[i \in 1..k |-> DocKeys[f[i]]] :
     f \in {g \in [1..k -> 1..Len(DocKeys)] : \A i \in 1..(k - 1) : g[i] < g[i + 1]}}

RECURSIVE TreesExact(_), ForestsExact(_)
\* The sequences of trees of n nodes in all.
ForestsExact(n) ==
  IF n = 0 THEN {<<>>}
  ELSE UNION {{<<t>> \o f : t \in TreesExact(m), f \in ForestsExact(n - m)} :
                m \in 1..n}
\* The JSON values of exactly n nodes (scalars and containers).
TreesExact(n) ==
  LET fs == ForestsExact(n - 1) IN
  (IF n = 1 THEN DocScalars ELSE {})
    \cup {Arr(f) : f \in fs}
    \cup UNION {{Obj(ks, f) : ks \in KeySeqs(Len(f))} : f \in fs}

Docs == UNION {TreesExact(n) : n \in 1..MaxNodes}

RECURSIVE SeqsUpTo(_, _)
SeqsUpTo(S, n) ==
  IF n = 0 THEN {<<>>}
  ELSE LET shorter == SeqsUpTo(S, n - 1)
       IN shorter \cup {Append(q, x) : q \in {r \in shorter : Len(r) = n - 1}, x \in S}

Paths == SeqsUpTo(PathSegs, MaxPathLen)

(***************************************************************************)
(* Locations of a heap value, as sequences of property keys.               *)
(***************************************************************************)
KeyPath(p) == [i \in 1..Len(p) |-> ToPropertyKey(p[i])]

\* The child of v under a property key, undefined when v has none.
Child(h, v, key) ==
  IF v.t # "ref" THEN Undef
  ELSE LET o == h[v.n] IN
       IF o.t = "obj" THEN ObjGet(o, key)
       ELSE IF IsArrayIndexKey(key) /\ DigitsValue(key) < Len(o.c)
            THEN o.c[DigitsValue(key) + 1]
            ELSE Undef

RECURSIVE At(_, _, _)
At(h, v, keys) ==
  IF Len(keys) = 0 THEN v ELSE At(h, Child(h, v, Head(keys)), Tail(keys))

KeysOf(o) == IF o.t = "obj" THEN o.ks ELSE [i \in 1..Len(o.c) |-> NatToString(i - 1)]

RECURSIVE Locs(_, _)
Locs(h, v) ==
  IF v.t # "ref" THEN {<<>>}
  ELSE LET o == h[v.n] IN
       {<<>>} \cup UNION {{<<KeysOf(o)[i]>> \o q : q \in Locs(h, o.c[i])} :
                            i \in 1..Len(o.c)}

IsPrefix(p, q) == Len(p) <= Len(q) /\ SubSeq(q, 1, Len(p)) = p
Diverges(p, q) == ~IsPrefix(p, q) /\ ~IsPrefix(q, p)

(***************************************************************************)
(* updateJsonAtPath as a call: the arguments are drawn, then the call      *)
(* returns.                                                                *)
(***************************************************************************)
\* The document and a new value, built in a heap; the value passed is a new
\* one or (GetAtPath) the one the document holds at the path.
GetAtPath == Mk("get", 0, <<>>, <<>>, <<>>)
UpdateInputs(D, P, V) ==
  LET d == Load(<<>>, D)
      w == IF V = GetAtPath THEN [h |-> d.h, v |-> At(d.h, d.v, KeyPath(P))]
           ELSE Load(d.h, V)
  IN [heap |-> w.h, json |-> d.v, newValue |-> w.v]

InitUpdate ==
  \E D \in Docs, P \in Paths :
    \E V \in NewValues \cup (IF At(Load(<<>>, D).h, Load(<<>>, D).v, KeyPath(P)) # Undef
                              THEN {GetAtPath} ELSE {}) :
      LET in == UpdateInputs(D, P, V) IN
      /\ pc = "call"
      /\ heap = in.heap
      /\ json = in.json
      /\ path = P
      /\ newValue = in.newValue
      /\ ret = [h |-> in.heap, v |-> Undef]
      /\ editedContent = <<>>
      /\ parsed = ParseFail
      /\ IdleModal

CallUpdate ==
  /\ pc = "call"
  /\ ret' = updateJsonAtPath(heap, json, path, newValue)
  /\ pc' = "returned"
  /\ UNCHANGED <<heap, json, path, newValue>>
  /\ UNCHANGED <<editedContent, parsed>>
  /\ UNCHANGED modalVars

NextUpdate == CallUpdate

SpecUpdate == InitUpdate /\ [][NextUpdate]_vars

(***************************************************************************)
(* Claims about updateJsonAtPath (checked under SpecUpdate).               *)
(***************************************************************************)
Returned == pc = "returned"
DocBefore == Deref(heap, json)
DocAfter == Deref(ret.h, ret.v)
Target == KeyPath(path)
ProperPrefixes(q) == {SubSeq(q, 1, k) : k \in 0..(Len(q) - 1)}

\* The segment addresses an existing child of v, by an index if v is a
\* sequence and by a key if v is a mapping.
AddressesChild(h, v, seg) ==
  /\ v.t = "ref"
  /\ \/ h[v.n].t = "arr" /\ seg.t = "num" /\ seg.n >= 0 /\ seg.n < Len(h[v.n].c)
     \/ h[v.n].t = "obj" /\ seg.t = "str" /\ Child(h, v, seg.s) # Undef

\* Every segment of p addresses an existing child of the document.
ValidIn(p) ==
  \A k \in 1..Len(p) :
    AddressesChild(heap, At(heap, json, KeyPath(SubSeq(p, 1, k - 1))), p[k])

\* C1: the call never mutates the document: every container that existed
\* before the call holds the same keys and elements, in the same order, after.
C1_NoMutation ==
  Returned => \A a \in 1..Len(heap) : Len(ret.h) >= a /\ ret.h[a] = heap[a]

C1_Witness ==
  /\ Returned /\ Len(path) = 2 /\ ValidIn(path)
  /\ DocAfter # DocBefore

C3_RoundTrip ==
  (Returned /\ At(heap, json, Target) # Undef /\ newValue = At(heap, json, Target))
    => DocAfter = DocBefore

C3_Witness ==
  /\ Returned /\ Len(path) = 2 /\ ValidIn(path)
  /\ newValue = At(heap, json, Target)
  /\ \E k \in 0..1 : LET v == At(heap, json, SubSeq(Target, 1, k))
                     IN v.t = "ref" /\ heap[v.n].t = "obj" /\ Len(heap[v.n].ks) = 2

\* The precondition of C4: the path is empty, or all its segments but the last
\* address existing children and the last is an index within a sequence or a
\* string key of a mapping.
Applicable ==
  \/ Len(path) = 0
  \/ /\ ValidIn(SubSeq(path, 1, Len(path) - 1))
     /\ LET v == At(heap, json, KeyPath(SubSeq(path, 1, Len(path) - 1)))
            last == path[Len(path)]
        IN /\ v.t = "ref"
           /\ \/ AddressesChild(heap, v, last)
              \/ heap[v.n].t = "obj" /\ last.t = "str"

OutOfRangeAt(k) ==
  LET v == At(heap, json, KeyPath(SubSeq(path, 1, k - 1))) IN
  /\ path[k].t = "num"
  /\ v.t = "ref" /\ heap[v.n].t = "arr"
  /\ (path[k].n < 0 \/ path[k].n >= Len(heap[v.n].c))

\* C5: an out-of-range index is a no-op: the result is structurally equal to
\* the document (no sequence grows, newValue appears nowhere new).
C5_OutOfRangeNoOp ==
  (Returned /\ \E k \in 1..Len(path) : OutOfRangeAt(k)) => DocAfter = DocBefore

C5_Witness ==
  /\ Returned /\ Len(path) = 2 /\ newValue = Num(7)
  /\ OutOfRangeAt(2) /\ path[2].n >= 0
  /\ heap[At(heap, json, SubSeq(Target, 1, 1)).n].c # <<>>

\* At some level the value reached is not what the segment expects: a scalar,
\* null or a missing child, a mapping under an integer, a sequence under a
\* string.
ShapeMismatchAt(k) ==
  LET v == At(heap, json, KeyPath(SubSeq(path, 1, k - 1))) IN
  \/ v.t # "ref"
  \/ heap[v.n].t = "obj" /\ path[k].t = "num"
  \/ heap[v.n].t = "arr" /\ path[k].t = "str"

\* C6: a shape mismatch is a no-op: the result is structurally equal to the
\* document and no intermediate container is created.
C6_ShapeMismatchNoOp ==
  (Returned /\ \E k \in 1..Len(path) : ShapeMismatchAt(k)) => DocAfter = DocBefore

(***************************************************************************)
(* The parse of the edited content as an operation: a text is drawn, then  *)
(* parsed.                                                                 *)
(***************************************************************************)
MaxTextLen == 4

Alphabet == {"\"", "5", "0", "-", " ", "NBSP", "a", "\\"}

ExampleTexts ==
  {TrueText, FalseText, NullText, Infinity, <<"-">> \o Infinity,
   <<"b", "a", "n", "a", "n", "a">>, <<"+", "5">>,
   <<"{", "\"", "a", "\"", ":", "1", "}">>, <<"[", "5", ",", " ", "t", "r", "u", "e", "]">>}

Texts ==
  SeqsUpTo(Alphabet, MaxTextLen)
    \cup UNION {{e, <<"NBSP">> \o e, e \o <<"NBSP">>, <<" ">> \o e \o <<"\n">>} :
                  e \in ExampleTexts}

InitCoerce ==
  /\ pc = "text"
  /\ editedContent \in Texts
  /\ parsed = ParseFail
  /\ IdleUpdate
  /\ IdleModal

ParseContent ==
  /\ pc = "text"
  /\ parsed' = ParseEdited(editedContent)
  /\ pc' = "parsed"
  /\ UNCHANGED editedContent
  /\ UNCHANGED updateVars
  /\ UNCHANGED modalVars

NextCoerce == ParseContent

SpecCoerce == InitCoerce /\ [][NextCoerce]_vars

(***************************************************************************)
(* Claims about the parse of the edited content (checked under SpecCoerce).*)
(***************************************************************************)
\* C7: coercion is total: the parse of the edited content never fails.
C7_CoercionTotal == pc = "parsed" => parsed.ok

\* The value the precedence rules of C8 give a text.
RuleValue(text) ==
  LET strict == JsonParse(text)
      trimmed == Trim(text)
  IN IF strict.ok THEN strict.v
     ELSE IF StartsWith(trimmed, "\"") /\ EndsWith(trimmed, "\"") THEN JsonParse(trimmed).v
     ELSE IF trimmed = NullText THEN Null
     ELSE IF trimmed \in {TrueText, FalseText} THEN Bool(trimmed = TrueText)
     ELSE IF trimmed # <<>> /\ ToNumber(trimmed).t = "num" THEN ToNumber(trimmed)
     ELSE Str(trimmed)

\* C8: coercion precedence: whenever the parse returns, it returns the value
\* of the first rule that applies, and a Number it returns is finite.
C8_Precedence ==
  (pc = "parsed" /\ parsed.ok) =>
    parsed.v = RuleValue(editedContent) /\ parsed.v.t \notin {"inf", "nan"}

(***************************************************************************)
(* The modal.                                                              *)
(***************************************************************************)
MissingPathToast == "Cannot update: node path is missing"
InvalidJsonToast == "Invalid JSON"
SuccessToast == "Node updated successfully"

\* The type a display row names.
TypeName(v) ==
  CASE v.t = "arr" -> "array"
    [] v.t = "obj" -> "object"
    [] v.t = "str" -> "string"
    [] v.t = "num" -> "number"
    [] v.t = "bool" -> "boolean"
    [] OTHER -> "null"

\* The display rows of a node: one row per field of an object, the rows of
\* array and object fields carrying no value; one keyless row for a scalar.
RowsOf(tree) ==
  IF tree.t = "obj"
  THEN [i \in 1..Len(tree.ks) |->
          Row(Str(tree.ks[i]),
              IF IsContainer(tree.c[i]) THEN Undef ELSE tree.c[i],
              TypeName(tree.c[i]))]
  ELSE <<Row(Null, tree, TypeName(tree))>>

\* The value of a document at a path.
ValueAt(tree, p) ==
  LET d == Load(<<>>, tree) IN Deref(d.h, At(d.h, d.v, KeyPath(p)))

\* The node the graph shows for the value of the document at path p.
NodeAt(tree, p) ==
  [selected |-> TRUE, hasPath |-> TRUE, path |-> p, text |-> RowsOf(ValueAt(tree, p))]

\* Whether the graph shows the value at p as a node of its own: the root, an
\* element of a sequence or an object; a scalar field is a row of its object.
IsNode(tree, p) ==
  /\ ValueAt(tree, p).t # "arr"
  /\ \/ Len(p) = 0
     \/ ValueAt(tree, p).t = "obj"
     \/ ValueAt(tree, SubSeq(p, 1, Len(p) - 1)).t = "arr"

RECURSIVE DocPaths(_)
\* The paths of a document: indices into sequences, keys into mappings.
DocPaths(tree) ==
  {<<>>} \cup
    UNION {{<<IF tree.t = "obj" THEN Str(tree.ks[i]) ELSE Num(i - 1)>> \o q :
              q \in DocPaths(tree.c[i])} : i \in 1..Len(tree.c)}

MaxSelectDepth == 1
MaxSaves == 2

\* The documents the store starts with.
ModalDocs ==
  {Obj(<<<<"a">>, <<"b">>>>, <<Num(1), Arr(<<Num(2)>>)>>),
   Arr(<<Str(<<"5">>), Obj(<<<<"a">>>>, <<Str(<<"x">>)>>)>>),
   Obj(<<<<"a">>>>, <<Obj(<<<<"b">>>>, <<Null>>)>>),
   Str(<<"t", "r", "u", "e">>),
   Num(1)}

\* A store text that is not JSON.
BrokenStore == <<"{">>

\* The texts typed into the textarea.
EditTexts ==
  {<<"7">>, <<"\"">>, <<"\"", "7", "\"">>, <<"{", "\"", "a", "\"", ":", "7", "}">>}

Init ==
  /\ pc = "modal"
  /\ store \in {JsonStringify(D) : D \in ModalDocs} \cup {BrokenStore}
  /\ contents \in {store, <<>>}
  /\ nodeData = NoNode
  /\ isEditing = FALSE
  /\ editedContent = <<>>
  /\ toast = "none"
  /\ saves = 0
  /\ parsed = ParseFail
  /\ IdleUpdate

\* The graph selects a node of the stored document, with or without its
\* path; the effect of lines 77-82 then resets the modal.
SelectNode ==
  /\ JsonParse(store).ok
  /\ \E p \in DocPaths(JsonParse(store).v), withPath \in BOOLEAN :
       /\ Len(p) <= MaxSelectDepth
       /\ IsNode(JsonParse(store).v, p)
       /\ nodeData' = [NodeAt(JsonParse(store).v, p) EXCEPT
                         !.hasPath = withPath,
                         !.path = IF withPath THEN p ELSE <<>>]
       /\ editedContent' = normalizeNodeData(nodeData'.text)
       /\ isEditing' = FALSE
  /\ UNCHANGED <<pc, parsed, store, contents, toast, saves>>
  /\ UNCHANGED updateVars

handleEdit ==
  /\ ~isEditing
  /\ isEditing' = TRUE
  /\ UNCHANGED <<pc, parsed, editedContent, nodeData, store, contents, toast, saves>>
  /\ UNCHANGED updateVars

\* onChange of the textarea, shown while editing.
onChange ==
  /\ isEditing
  /\ \E text \in EditTexts : editedContent' = text
  /\ UNCHANGED <<pc, parsed, isEditing, nodeData, store, contents, toast, saves>>
  /\ UNCHANGED updateVars

handleCancel ==
  /\ isEditing
  /\ editedContent' = IF nodeData.selected THEN normalizeNodeData(nodeData.text)
                      ELSE editedContent
  /\ isEditing' = FALSE
  /\ UNCHANGED <<pc, parsed, nodeData, store, contents, toast, saves>>
  /\ UNCHANGED updateVars

\* Line 133: the updated document as text.
Serialized(updatedJson) ==
  [ok |-> TRUE, text |-> JsonStringify(Deref(updatedJson.h, updatedJson.v))]

\* Line 130, the new value w in the heap of the parsed document.
Updated(p, currentJson, w) == Serialized(updateJsonAtPath(w.h, currentJson, p, w.v))

\* The objects JSON.parse builds for the document (d) and the new value.
Parsed(p, d, value) == Updated(p, d.v, Load(d.h, value))

\* Lines 104-133 given the outcomes of the two parses: a failure where one
\* of them throws.
TryBlock(p, nv, currentJson) ==
  IF ~nv.ok \/ ~currentJson.ok THEN [ok |-> FALSE, text |-> <<>>]
  ELSE Parsed(p, Load(<<>>, currentJson.v), nv.v)

\* The body of the try block of handleSave: the new text of the document,
\* or a failure where one of the JSON.parse calls throws.
SaveUpdate(nd, edited, st) == TryBlock(nd.path, ParseEdited(edited), JsonParse(st))

\* Lines 136-142 after a try block that succeeded, lines 143-149 after one
\* that threw.
Settled(u, st, cont) ==
  IF u.ok
  THEN [store |-> u.text, contents |-> u.text, toast |-> SuccessToast,
        isEditing |-> FALSE]
  ELSE [store |-> st, contents |-> cont, toast |-> InvalidJsonToast,
        isEditing |-> TRUE]

\* handleSave with the editor contents written before the parses.
EagerWriteOutcome(nd, edited, st, cont) ==
  IF ~nd.selected \/ ~nd.hasPath
  THEN [store |-> st, contents |-> cont, toast |-> MissingPathToast, isEditing |-> TRUE]
  ELSE Settled(SaveUpdate(nd, edited, st), st, edited)

\* What handleSave leaves in the stores, the toast and isEditing.
SaveOutcome(nd, edited, st, cont) ==
  IF ~nd.selected \/ ~nd.hasPath
  THEN [store |-> st, contents |-> cont, toast |-> MissingPathToast, isEditing |-> TRUE]
  ELSE Settled(SaveUpdate(nd, edited, st), st, cont)

\* The four results of handleSave as the next state.
Saved(out) ==
  /\ store' = out.store
  /\ contents' = out.contents
  /\ toast' = out.toast
  /\ isEditing' = out.isEditing

handleSave ==
  /\ isEditing
  /\ saves < MaxSaves
  /\ saves' = saves + 1
  /\ Saved(SaveOutcome(nodeData, editedContent, store, contents))
  /\ UNCHANGED <<pc, parsed, editedContent, nodeData>>
  /\ UNCHANGED updateVars

Next == SelectNode \/ handleEdit \/ onChange \/ handleCancel \/ handleSave

Spec == Init /\ [][Next]_vars

Unedited ==
  /\ nodeData.selected /\ nodeData.hasPath
  /\ JsonParse(store).ok
  /\ nodeData = NodeAt(JsonParse(store).v, nodeData.path)
  /\ editedContent = normalizeNodeData(nodeData.text)

\* C10: saving without editing preserves the document: the Save succeeds and
\* the stored document is structurally equal to the one before.
C10_SaveUneditedPreserves ==
  [][(handleSave /\ Unedited) =>
       /\ toast' = SuccessToast
       /\ JsonParse(store').ok
       /\ JsonParse(store').v = JsonParse(store).v]_vars

====
